---- MODULE Spec2Model ----
(***************************************************************************)
(* Deploy receiver: the POST /deploy handler, the per-repo lock table and  *)
(* runDeploy (child process, output capture, timeout ladder).              *)
(*                                                                         *)
(* Strings are sequences of one-character strings.  An optional value      *)
(* (a header, a body field, an exit code) is a sequence of length 0        *)
(* (undefined / null) or 1 (the value).                                    *)
(***************************************************************************)
EXTENDS Integers, Sequences, FiniteSets, Bags, TLC

(***************************************************************************)
(* Bounds of the model                                                     *)
(***************************************************************************)
\* number of runs (a deploy, or the child and timers one left behind) that
\* exist at the same time
NReq == 2
\* longest stdout / stderr a child writes, in characters
MaxData == 2
\* config.maxOutputChars (DEPLOY_MAX_OUTPUT_CHARS), kept below MaxData so
\* that truncation happens
MaxOutputChars == 1
\* longest string and largest budget tail is called with on its own
MaxStr == 4
MaxBudget == 3

(***************************************************************************)
(* Program constants                                                       *)
(***************************************************************************)
\* config.deployTimeoutMs (DEFAULTS.DEPLOY_TIMEOUT_MS)
DeployTimeoutMs == 180000
\* delay of the inner setTimeout that sends SIGKILL
GraceMs == 5000
\* upper length of REPO_SLUG_RE / TAG_RE and IMAGE_RE
SlugMaxLen == 128
ImageMaxLen == 256

None == <<>>
Some(v) == <<v>>

(***************************************************************************)
(* Characters and the strings the requests are drawn from                  *)
(***************************************************************************)
Lower == {"a", "b", "c", "g", "h", "i", "o", "p", "r", "s", "t", "y", "e", "d", "v", "l", "z"}
Upper == {"A", "Z"}
Digit == {"0", "9"}
\* [a-zA-Z0-9._-]
SlugChars == Lower \cup Upper \cup Digit \cup {".", "_", "-"}
\* [a-z0-9._/-]
ImageChars == Lower \cup Digit \cup {".", "_", "/", "-"}

Sporty == <<"s", "p", "o", "r", "t", "y">>
Blitzed == <<"b", "l", "i", "t", "z", "e", "d">>
GhcrPrefix == <<"g", "h", "c", "r", ".", "i", "o", "/">>

\* REPO_SLUG_RE = /^[a-zA-Z0-9._-]{1,128}$/
REPO_SLUG_RE(s) ==
    /\ Len(s) >= 1
    /\ Len(s) <= SlugMaxLen
    /\ \A i \in 1..Len(s) : s[i] \in SlugChars

\* IMAGE_RE = /^ghcr\.io\/[a-z0-9._/-]{1,256}$/
IMAGE_RE(s) ==
    /\ Len(s) >= Len(GhcrPrefix) + 1
    /\ Len(s) <= Len(GhcrPrefix) + ImageMaxLen
    /\ SubSeq(s, 1, Len(GhcrPrefix)) = GhcrPrefix
    /\ \A i \in (Len(GhcrPrefix) + 1)..Len(s) : s[i] \in ImageChars

\* TAG_RE = /^[a-zA-Z0-9._-]{1,128}$/
TAG_RE(s) ==
    /\ Len(s) >= 1
    /\ Len(s) <= SlugMaxLen
    /\ \A i \in 1..Len(s) : s[i] \in SlugChars

\* ENVS = new Set(["prod", "dev", ""])
ENVS == {<<"p", "r", "o", "d">>, <<"d", "e", "v">>, <<>>}

\* mutant: only undefined counts as missing
FalsyUndefinedOnly(opt) == opt = None

\* JavaScript !x for an optional string: undefined or the empty string
Falsy(opt) == opt = None \/ opt[1] = <<>>

(***************************************************************************)
(* Lock table: deployLocks is the set of keys the Map holds (each with the *)
(* value true)                                                             *)
(***************************************************************************)
\* mutant: the busy test is dropped
acquireLockAlways(locks, repo) == TRUE

\* mutant: one lock for all repositories
acquireLockGlobal(locks, repo) == locks = {}

\* acquireLock's return value
acquireLock(locks, repo) == repo \notin locks

\* mutant: the key is never set
acquireLockTableForget(locks, repo) == locks

\* mutant: the entry is toggled
acquireLockTableToggle(locks, repo) ==
    IF repo \in locks THEN locks \ {repo} ELSE locks \cup {repo}

\* the Map after acquireLock(repo)
acquireLockTable(locks, repo) ==
    IF acquireLock(locks, repo) THEN locks \cup {repo} ELSE locks

\* mutant: release forgets to delete the key
releaseLockKeep(locks, repo) == locks

\* mutant: release clears the whole table
releaseLockClear(locks, repo) == {}

\* the Map after releaseLock(repo)
releaseLock(locks, repo) == locks \ {repo}

(***************************************************************************)
(* tail(str, maxChars)                                                     *)
(***************************************************************************)
\* mutant: keeps the head of the string instead of its tail
tailHead(str, maxChars) ==
    IF Len(str) > maxChars THEN SubSeq(str, 1, maxChars) ELSE str

tail(str, maxChars) ==
    IF str = <<>> THEN <<>>
    ELSE IF Len(str) > maxChars
         \* str.slice(-maxChars); slice(-0) is slice(0), the whole string
         THEN IF maxChars = 0 THEN str
              ELSE SubSeq(str, Len(str) - maxChars + 1, Len(str))
         ELSE str

\* mutant: only the lengths are compared
timingSafeEqualLength(a, b) ==
    IF a = None \/ b = None THEN FALSE
    ELSE Len(a[1]) = Len(b[1])

\* timingSafeEqual(a, b) on optional strings (typeof check, length check,
\* then crypto.timingSafeEqual on the bytes)
timingSafeEqual(a, b) ==
    IF a = None \/ b = None THEN FALSE
    ELSE IF Len(a[1]) # Len(b[1]) THEN FALSE
    ELSE a[1] = b[1]

\* what a call timingSafeEqual(a, b) executes before it returns: the
\* statement it returns from and the bytes crypto.timingSafeEqual compares
\* (all bytes of two buffers of one length, whatever they hold)
timingSafeEqualWork(a, b) ==
    IF a = None \/ b = None THEN [returns |-> "typeof", bytes |-> 0]
    ELSE IF Len(a[1]) # Len(b[1]) THEN [returns |-> "length", bytes |-> 0]
    ELSE [returns |-> "compare", bytes |-> Len(a[1])]

(***************************************************************************)
(* State                                                                   *)
(***************************************************************************)
VARIABLES
    allowlist,    \* config.allowlist: None (null) or Some(set of repo slugs)
    deployLocks,  \* keys of the deployLocks Map
    run,          \* the bag of runs: a handler suspended at its await, with
                  \* the child and the timers of its runDeploy call
    resp,         \* the response sent by the last step, NoResp if it sent none
    seen,         \* what the handler read in the last step: header, body,
                  \* filesystem; NotSeen if the step was not a request
    call,         \* a call of a helper function on its own: arguments, results
    childEnv      \* the env option of the spawn call the last step made, None
                  \* if it made none

vars == <<allowlist, deployLocks, run, resp, seen, call, childEnv>>

\* config.secrets.deployReceiverToken
DeployReceiverToken == <<"t", "o", "p">>
\* config.secrets.vaultwardenMasterPassword, config.secrets.ghcrPat
VaultwardenMasterPassword == <<"v", "w">>
GhcrPat == <<"p", "a", "t">>
\* config.appsRoot
AppsRoot == <<"/", "h">>
\* the PATH of the child
SafePath == <<"/", "b", "i", "n">>

\* path.join(dir, name) for a name without "." and ".." segments
PathJoin(dir, name) == dir \o <<"/">> \o name

\* mutant: the child inherits the receiver's token
SpawnEnvWithToken(repoDir, repo, image, tag, env) ==
    [PATH |-> SafePath, HOME |-> repoDir, DEPLOY_REPO |-> repo,
     DEPLOY_IMAGE |-> image, DEPLOY_TAG |-> tag, DEPLOY_ENV |-> env,
     VAULTWARDEN_MASTER_PASSWORD |-> VaultwardenMasterPassword,
     GHCR_PAT |-> GhcrPat, DEPLOY_RECEIVER_TOKEN |-> DeployReceiverToken]

\* the env option of spawn in runDeploy
SpawnEnv(repoDir, repo, image, tag, env) ==
    [PATH |-> SafePath, HOME |-> repoDir, DEPLOY_REPO |-> repo,
     DEPLOY_IMAGE |-> image, DEPLOY_TAG |-> tag, DEPLOY_ENV |-> env,
     VAULTWARDEN_MASTER_PASSWORD |-> VaultwardenMasterPassword,
     GHCR_PAT |-> GhcrPat]

NoResp == [kind |-> "none"]

\* the handler has read the token header, the body (None: not read, else the
\* destructured fields) and the state of appsRoot/repo ("unread": not looked
\* at)
Saw(token, body, fs) ==
    [req |-> TRUE, token |-> token, body |-> body, fs |-> fs]

NotSeen == [req |-> FALSE, token |-> None, body |-> None, fs |-> "unread"]

\* no helper is called on its own while the server runs
NoCall == [fn |-> "none"]

Runs == BagToSet(run)

\* the handler of run r is suspended at `await runDeploy(...)`: it has
\* acquired the lock of its repo and not yet released it
Awaiting(r) == r.pc = "awaiting"

\* nothing of the run is left: handler returned, child gone (its 'close' was
\* emitted), no timer armed
Finished(r) ==
    /\ r.pc # "awaiting"
    /\ r.child = "closed"
    /\ r.timer # "armed"
    /\ r.grace # "armed"

\* the bag of runs after run r went on as `after`; a finished run is
\* garbage, and so is the exit code of a child whose promise is settled
Replace(r, after) ==
    LET rest == run (-) SetToBag({r}) IN
    IF Finished(after) THEN rest
    ELSE IF after.pc = "done"
    THEN rest (+) SetToBag({[after EXCEPT !.exitCode = None]})
    ELSE rest (+) SetToBag({after})

(***************************************************************************)
(* Responses.  Besides the fields of the JSON body (ok, ctx = repo/image/  *)
(* tag present, field = "output" or "error", text) a response records what *)
(* the run delivered: exit code, captured streams, signals sent, and the   *)
(* number of releaseLock calls its handler made.                           *)
(***************************************************************************)
\* mutant: every early return answers 400
RejectCollapsed(kind, status) ==
    [kind |-> kind, status |-> 400, ok |-> FALSE, ctx |-> FALSE,
     repo |-> <<>>, field |-> "error", text |-> <<>>, exitCode |-> None,
     stdout |-> <<>>, stderr |-> <<>>, signals |-> <<>>, releases |-> 0]

\* a response sent before the lock step: { ok: false, error }
Reject(kind, status) ==
    [kind |-> kind, status |-> status, ok |-> FALSE, ctx |-> FALSE,
     repo |-> <<>>, field |-> "error", text |-> <<>>, exitCode |-> None,
     stdout |-> <<>>, stderr |-> <<>>, signals |-> <<>>, releases |-> 0]

\* mutant: the error text never falls back to stdout
ShapeResolvedNoFallback(result) ==
    IF result.exitCode = Some(0)
    THEN [kind |-> "success", status |-> 200, ok |-> TRUE, field |-> "output",
          text |-> tail(result.stdout, MaxOutputChars)]
    ELSE [kind |-> "failure", status |-> 500, ok |-> FALSE, field |-> "error",
          text |-> tail(result.stderr, MaxOutputChars)]

\* the try block after the await: result.exitCode === 0 ? 200 : 500
ShapeResolved(result) ==
    IF result.exitCode = Some(0)
    THEN [kind |-> "success", status |-> 200, ok |-> TRUE, field |-> "output",
          text |-> tail(result.stdout, MaxOutputChars)]
    ELSE [kind |-> "failure", status |-> 500, ok |-> FALSE, field |-> "error",
          text |-> tail(IF result.stderr # <<>> THEN result.stderr
                        ELSE result.stdout, MaxOutputChars)]

\* the catch block: 500 with err.message
ShapeCaught(message) ==
    [kind |-> "error", status |-> 500, ok |-> FALSE, field |-> "error",
     text |-> message]

\* the handler's promise rejected: the catch block threw as well
Escaped ==
    [kind |-> "escaped", status |-> 0, ok |-> FALSE, field |-> "error",
     text |-> <<>>]

\* err.message of the faults the model raises
SpawnErrorMessage == <<"E", "N", "O", "E", "N", "T">>
KillErrorMessage == <<"E", "P", "E", "R", "M">>
FaultMessage == <<"f", "a", "u", "l", "t">>

(***************************************************************************)
(* The handler after the await: try { shape } catch { 500 } finally        *)
(* { releaseLock(repo) }.  settle is how the promise of runDeploy settled, *)
(* fault is the block in which sending the response throws.                *)
(***************************************************************************)
Faults(settle) ==
    IF settle = "resolve" THEN {"none", "try", "catch"} ELSE {"none", "catch"}

\* the blocks the handler runs, in order
HandlerBlocks(settle, fault) ==
    IF settle = "resolve" /\ fault = "none" THEN <<"try", "finally">>
    ELSE IF settle = "resolve" THEN <<"try", "catch", "finally">>
    ELSE <<"catch", "finally">>

\* mutant: the lock is released at the end of the try block, not in a finally
BlockReleasesTry(block) == block = "try"

\* mutant: the catch block releases as well
BlockReleasesCatch(block) == block \in {"catch", "finally"}

\* the blocks that call releaseLock(repo)
BlockReleases(block) == block = "finally"

RECURSIVE LocksAfter(_, _, _)
\* the lock table after the blocks ran
LocksAfter(blocks, locks, repo) ==
    IF blocks = <<>> THEN locks
    ELSE LocksAfter(Tail(blocks),
                    IF BlockReleases(Head(blocks)) THEN releaseLock(locks, repo)
                    ELSE locks,
                    repo)

RECURSIVE ReleaseCalls(_)
\* how many times the blocks call releaseLock
ReleaseCalls(blocks) ==
    IF blocks = <<>> THEN 0
    ELSE (IF BlockReleases(Head(blocks)) THEN 1 ELSE 0) + ReleaseCalls(Tail(blocks))

\* what the handler sends
Shape(settle, fault, result, message) ==
    IF fault = "catch" THEN Escaped
    ELSE IF settle = "resolve" /\ fault = "none" THEN ShapeResolved(result)
    ELSE IF settle = "resolve" THEN ShapeCaught(FaultMessage)
    ELSE ShapeCaught(message)

\* the response of slot q's handler, with the record of its run
RunResp(r, settle, fault, result, message, signals) ==
    LET shape == Shape(settle, fault, result, message) IN
    [kind |-> shape.kind, status |-> shape.status, ok |-> shape.ok,
     ctx |-> shape.kind # "escaped", repo |-> r.repo,
     field |-> shape.field, text |-> shape.text,
     exitCode |-> IF settle = "resolve" THEN result.exitCode ELSE None,
     stdout |-> IF settle = "resolve" THEN result.stdout ELSE <<>>,
     stderr |-> IF settle = "resolve" THEN result.stderr ELSE <<>>,
     signals |-> signals,
     releases |-> ReleaseCalls(HandlerBlocks(settle, fault))]

(***************************************************************************)
(* Inputs of a request                                                     *)
(***************************************************************************)
\* An environment: how many runs exist at a time (cap), what requests
\* arrive (header and body fields, present or not, well formed or not), what
\* fs.existsSync / statSync / accessSync find under appsRoot/repo, whether
\* spawn("/bin/bash", ...) starts a process, what children write (outs, set
\* below) and in which blocks sending a response throws (faults).
AllRequests ==
    [tokens |-> {None, Some(<<>>), Some(DeployReceiverToken),
                 Some(<<"t", "o", "x">>), Some(<<"t">>)},
     repos |-> {None, Some(<<>>), Some(Sporty), Some(Blitzed),
                Some(<<"a", "/", "b">>)},
     images |-> {None, Some(GhcrPrefix \o <<"a", "/", "b">>), Some(<<"a">>)},
     tags |-> {None, Some(<<"v", "0">>), Some(<<"/">>)},
     envs |-> {None, Some(<<>>), Some(<<"p", "r", "o", "d">>), Some(<<"x">>)},
     fs |-> {"ok", "throws", "nodir", "notdir", "noscript", "noexec"},
     spawn |-> {"ok", "fail"}]

\* the requests of authenticated, well-formed deploys of repos whose
\* directory holds an executable deploy.sh: those that reach the allowlist
\* check and, if allowed, the lock step
DeployRequests ==
    [tokens |-> {Some(DeployReceiverToken)},
     repos |-> {Some(Sporty), Some(Blitzed)},
     images |-> {Some(GhcrPrefix \o <<"a", "/", "b">>)},
     tags |-> {Some(<<"v", "0">>)},
     envs |-> {None, Some(<<"p", "r", "o", "d">>)},
     fs |-> {"ok"},
     spawn |-> {"ok", "fail"}]

\* an environment from requests, outputs and faults
Env(cap, in, outs, faults) ==
    [cap |-> cap, tokens |-> in.tokens, repos |-> in.repos,
     images |-> in.images, tags |-> in.tags, envs |-> in.envs, fs |-> in.fs,
     spawn |-> in.spawn, outs |-> outs, faults |-> faults]

Respond(r) ==
    /\ resp' = r
    /\ childEnv' = None
    /\ UNCHANGED <<allowlist, deployLocks, run, call>>

\* mutant: the allowlist is never consulted
AllowedAlways(list, repo) == TRUE

\* mutant: an empty allowlist admits every repo, like a missing one
AllowedEmptyOpen(list, repo) == list = None \/ list[1] = {} \/ repo \in list[1]

\* config.allowlist && !config.allowlist.includes(repo) is false
Allowed(list, repo) == list = None \/ repo \in list[1]

\* runDeploy up to the return of the promise: spawn, listeners, timer armed
Spawned(repo, spawned) ==
    [pc |-> "awaiting", repo |-> repo,
     child |-> IF spawned = "ok" THEN "alive" ELSE "failed",
     exitCode |-> None, timer |-> "armed", grace |-> "none", elapsed |-> 0,
     signals |-> <<>>]

\* app.post("/deploy"): the synchronous part, from the auth check to the
\* await of runDeploy
Receive(world) ==
    \E token \in world.tokens :
      IF Falsy(token) \/ ~timingSafeEqual(token, Some(DeployReceiverToken))
      THEN /\ Respond(Reject("unauthorized", 401))
           /\ seen' = Saw(token, None, "unread")
      ELSE \E repo \in world.repos, image \in world.images, tag \in world.tags,
              environment \in world.envs :
        LET body == Some([repo |-> repo, image |-> image, tag |-> tag,
                          environment |-> environment])
            env == IF Falsy(environment) THEN <<>> ELSE environment[1]
            early(r) == Respond(r) /\ seen' = Saw(token, body, "unread")
        IN
        IF Falsy(repo) \/ Falsy(image) \/ Falsy(tag)
        THEN early(Reject("missing", 400))
        ELSE IF ~REPO_SLUG_RE(repo[1])
        THEN early(Reject("badrepo", 400))
        ELSE IF ~Allowed(allowlist, repo[1])
        THEN early(Reject("forbidden", 403))
        ELSE IF ~IMAGE_RE(image[1])
        THEN early(Reject("badimage", 400))
        ELSE IF ~TAG_RE(tag[1])
        THEN early(Reject("badtag", 400))
        ELSE IF env \notin ENVS
        THEN early(Reject("badenv", 400))
        ELSE \E fs \in world.fs :
          LET late(r) == Respond(r) /\ seen' = Saw(token, body, fs) IN
          \* path.join or fs.statSync throws: outside any try, the promise
          \* of the async handler rejects and nothing is sent
          IF fs = "throws"
          THEN late(Reject("uncaught", 0))
          ELSE IF fs \in {"nodir", "notdir"}
          THEN late(Reject("nodir", 404))
          ELSE IF fs = "noscript"
          THEN late(Reject("noscript", 404))
          ELSE IF fs = "noexec"
          THEN late(Reject("noexec", 500))
          ELSE IF ~acquireLock(deployLocks, repo[1])
          THEN late([Reject("busy", 409) EXCEPT !.repo = repo[1]])
          ELSE \E spawned \in world.spawn :
            /\ BagCardinality(run) < world.cap
            /\ deployLocks' = acquireLockTable(deployLocks, repo[1])
            /\ run' = run (+) SetToBag({Spawned(repo[1], spawned)})
            /\ resp' = NoResp
            /\ seen' = Saw(token, body, fs)
            /\ childEnv' = Some(SpawnEnv(PathJoin(AppsRoot, repo[1]), repo[1],
                                         image[1], tag[1], env))
            /\ UNCHANGED <<allowlist, call>>

(***************************************************************************)
(* runDeploy: the child's events and the timers                            *)
(***************************************************************************)
Chars == {"a", "b"}

RECURSIVE StringsUpTo(_)
\* the strings of at most n characters
StringsUpTo(n) ==
    IF n = 0 THEN {<<>>}
    ELSE LET shorter == StringsUpTo(n - 1) IN
         shorter \cup {Append(s, c) : s \in {t \in shorter : Len(t) = n - 1}, c \in Chars}

\* what a child wrote to stdout and stderr before its streams closed, as the
\* chunks of the 'data' events (at most MaxData characters in all)
Outputs ==
    {o \in [out : StringsUpTo(MaxData), err : StringsUpTo(MaxData)] :
        Len(o.out) + Len(o.err) <= MaxData}

Silent == [out |-> <<>>, err |-> <<>>]

\* children that write nothing, or two characters to stdout
FewOutputs == {Silent, [out |-> <<"a", "b">>, err |-> <<>>]}

RECURSIVE Capture(_, _)
\* child.stdout.on("data") / child.stderr.on("data"): buffer += data.toString()
\* for each chunk (here: one character per chunk)
Capture(buffer, chunks) ==
    IF chunks = <<>> THEN buffer
    ELSE Capture(buffer \o <<Head(chunks)>>, Tail(chunks))

\* exit codes a deploy.sh ends with; None: it was ended by a signal
ExitCodes == {Some(0), Some(1), None}

\* child.kill(sig) on a live child: the signal is sent, or the kill fails
\* (EPERM) and the child emits 'error'
KillResults == {"sent", "error"}

\* mutant: the inner timer repeats the graceful signal
GraceSignalTerm == "SIGTERM"

\* the signal of the inner timer
GraceSignal == "SIGKILL"

\* the delay of the inner timer
GraceDelay == GraceMs

\* the handler of run r resumes after its promise settled and runs to its
\* end; the run goes on as `after` with the handler gone
Settle(world, r, settle, result, message, after) ==
    \E fault \in Faults(settle) \cap world.faults :
      /\ resp' = RunResp(r, settle, fault, result, message, after.signals)
      /\ deployLocks' = LocksAfter(HandlerBlocks(settle, fault), deployLocks,
                                   r.repo)
      /\ run' = Replace(r, [after EXCEPT !.pc = "done"])
      /\ seen' = NotSeen
      /\ childEnv' = None
      /\ UNCHANGED <<allowlist, call>>

\* an event of run r that no handler waits for
Quiet(r, after) ==
    /\ run' = Replace(r, after)
    /\ resp' = NoResp
    /\ seen' = NotSeen
    /\ childEnv' = None
    /\ UNCHANGED <<allowlist, deployLocks, call>>

\* mutant: 'error' has no listener that settles the promise
EmitErrorIgnored(world, r, message, after) == Quiet(r, after)

\* the child emits 'error': reject(err), a no-op on a settled promise
EmitError(world, r, message, after) ==
    IF Awaiting(r)
    THEN Settle(world, r, "reject", [exitCode |-> None, stdout |-> <<>>, stderr |-> <<>>],
                message, after)
    ELSE Quiet(r, after)

\* spawn failed: 'error' is emitted on the next tick
SpawnError(world, r) ==
    /\ r.child = "failed"
    /\ EmitError(world, r, SpawnErrorMessage,
                 [r EXCEPT !.child = "dead", !.exitCode = Some(-2)])

\* the process ends, by itself or by a signal
ChildExit(r, code) ==
    /\ r.child = "alive"
    /\ Quiet(r, [r EXCEPT !.child = "dead", !.exitCode = code])

\* mutant: 'close' has no listener that clears the timer
ChildCloseKeepsTimer(world, r, o) ==
    /\ r.child = "dead"
    /\ LET after == [r EXCEPT !.child = "closed"]
           result == [exitCode |-> r.exitCode,
                      stdout |-> Capture(<<>>, o.out),
                      stderr |-> Capture(<<>>, o.err)]
       IN IF Awaiting(r)
          THEN Settle(world, r, "resolve", result, <<>>, after)
          ELSE /\ o = Silent
               /\ Quiet(r, after)

\* the streams of the ended process close: 'close' is emitted, its first
\* listener resolves the promise, its second clears the timer
ChildClose(world, r, o) ==
    /\ r.child = "dead"
    /\ LET after == [r EXCEPT !.child = "closed",
                              !.timer = IF @ = "armed" THEN "cleared" ELSE @]
           result == [exitCode |-> r.exitCode,
                      stdout |-> Capture(<<>>, o.out),
                      stderr |-> Capture(<<>>, o.err)]
       IN IF Awaiting(r)
          THEN Settle(world, r, "resolve", result, <<>>, after)
          ELSE /\ o = Silent
               /\ Quiet(r, after)

\* mutant: the signal is sent to the process id, live process or not
KillAlways(r, sig, res, now) ==
    [r EXCEPT !.signals = Append(@, [sig |-> sig, at |-> now, res |-> res])]

\* child.kill(sig) with result res, `now` ms after the spawn: the slot after
\* the call.  A child without a live process is not signalled.
Kill(r, sig, res, now) ==
    IF r.child # "alive" THEN r
    ELSE [r EXCEPT !.signals = Append(@, [sig |-> sig, at |-> now, res |-> res]),
                   !.child = IF sig = "SIGKILL" /\ res = "sent" THEN "dead" ELSE @]

\* The timers of a run fire when their delay has passed; elapsed is the time
\* since the spawn at the last timer callback of the run.  How the timers of
\* different runs interleave is left open.

\* the outer timer, armed at the spawn with delay config.deployTimeoutMs (and
\* the `timeout` option of spawn, due at the same time): SIGTERM, then the
\* inner timer is armed.  A failed spawn has emitted its 'error' by then.
TimeoutFire(world, r, res) ==
    /\ r.timer = "armed"
    /\ r.child # "failed"
    /\ LET now == r.elapsed + DeployTimeoutMs
           after == [Kill(r, "SIGTERM", res, now) EXCEPT
                        !.timer = "fired", !.grace = "armed", !.elapsed = now]
       IN IF r.child = "alive" /\ res = "error"
          THEN EmitError(world, r, KillErrorMessage, after)
          ELSE /\ res = "sent"
               /\ Quiet(r, after)

\* mutant: the inner timer signals whatever child of the repository is alive,
\* looked up by repository instead of held by the closure
GraceFireByRepo(world, r, res) ==
    /\ r.grace = "armed"
    /\ res = "sent"
    /\ \E z \in Runs :
         /\ z.repo = r.repo
         /\ z.child = "alive"
         /\ LET now == r.elapsed + GraceDelay
                fired == [r EXCEPT !.grace = "fired", !.elapsed = now]
            IN run' = IF z = r
                      THEN Replace(r, Kill(fired, GraceSignal, res, now))
                      ELSE (run (-) SetToBag({r, z})) (+)
                           SetToBag({fired, Kill(z, GraceSignal, res, now)})
    /\ resp' = NoResp
    /\ seen' = NotSeen
    /\ childEnv' = None
    /\ UNCHANGED <<allowlist, deployLocks, call>>

\* the inner timer, armed by the outer one: SIGKILL
GraceFire(world, r, res) ==
    /\ r.grace = "armed"
    /\ LET now == r.elapsed + GraceDelay
           after == [Kill(r, GraceSignal, res, now) EXCEPT
                        !.grace = "fired", !.elapsed = now]
       IN IF r.child = "alive" /\ res = "error"
          THEN EmitError(world, r, KillErrorMessage, after)
          ELSE /\ res = "sent"
               /\ Quiet(r, after)

(***************************************************************************)
(* Specifications                                                          *)
(***************************************************************************)
Allowlists == {None, Some({}), Some({Sporty})}

Init ==
    /\ allowlist \in Allowlists
    /\ deployLocks = {}
    /\ run = EmptyBag
    /\ resp = NoResp
    /\ seen = NotSeen
    /\ call = NoCall
    /\ childEnv = None

\* the steps of the program in an environment
Step(world) ==
    \/ Receive(world)
    \/ \E r \in Runs : SpawnError(world, r)
    \/ \E r \in Runs, code \in ExitCodes : ChildExit(r, code)
    \/ \E r \in Runs, o \in world.outs : ChildClose(world, r, o)
    \/ \E r \in Runs, res \in KillResults : TimeoutFire(world, r, res)
    \/ \E r \in Runs, res \in KillResults : GraceFire(world, r, res)

AllFaults == {"none", "try", "catch"}

\* concurrent deploys: the requests that reach the lock step, children that
\* write little
Concurrent == Env(NReq, DeployRequests, FewOutputs, AllFaults)

Next == Step(Concurrent)

Spec == Init /\ [][Next]_vars

\* one run at a time, every kind of request and every output
Single == Env(1, AllRequests, Outputs, AllFaults)

NextOne == Step(Single)

SpecOne == Init /\ [][NextOne]_vars

\* concurrent deploys that name no environment, whose children write nothing
\* and whose responses are sent without fault
Plain ==
    Env(NReq, [DeployRequests EXCEPT !.envs = {None}], {Silent}, {"none"})

NextPlain == Step(Plain)

\* the events of the run that holds the lock of repo: next-tick and timer
\* callbacks and the child's 'close'
HolderStep(repo) ==
    \E r \in Runs :
      /\ Awaiting(r)
      /\ r.repo = repo
      /\ \/ SpawnError(Plain, r)
         \/ ChildClose(Plain, r, Silent)
         \/ \E res \in KillResults : TimeoutFire(Plain, r, res)
         \/ \E res \in KillResults : GraceFire(Plain, r, res)

\* the same without the child's 'close'
TimerStep(repo) ==
    \E r \in Runs :
      /\ Awaiting(r)
      /\ r.repo = repo
      /\ \/ SpawnError(Plain, r)
         \/ \E res \in KillResults : TimeoutFire(Plain, r, res)
         \/ \E res \in KillResults : GraceFire(Plain, r, res)

Repos == {Sporty, Blitzed}

\* timers fire, and every child that ended emits 'close'
FairSpec ==
    /\ Init
    /\ [][NextPlain]_vars
    /\ \A repo \in Repos : WF_vars(HolderStep(repo))

\* timers fire; whether an ended child ever emits 'close' is left open
TimerFairSpec ==
    /\ Init
    /\ [][NextPlain]_vars
    /\ \A repo \in Repos : WF_vars(TimerStep(repo))

(***************************************************************************)
(* tail on its own: called on a string and a budget, then on its result    *)
(***************************************************************************)
InitTail ==
    /\ allowlist = None
    /\ deployLocks = {}
    /\ run = EmptyBag
    /\ resp = NoResp
    /\ seen = NotSeen
    /\ childEnv = None
    /\ call \in [fn : {"tail"}, str : StringsUpTo(MaxStr), maxChars : 1..MaxBudget,
                  out : {None}, again : {None}]

\* tail(str, maxChars)
TailOnce ==
    /\ call.out = None
    /\ call' = [call EXCEPT !.out = Some(tail(call.str, call.maxChars))]
    /\ UNCHANGED <<allowlist, deployLocks, run, resp, seen, childEnv>>

\* tail(tail(str, maxChars), maxChars)
TailTwice ==
    /\ call.out # None
    /\ call.again = None
    /\ call' = [call EXCEPT !.again = Some(tail(call.out[1], call.maxChars))]
    /\ UNCHANGED <<allowlist, deployLocks, run, resp, seen, childEnv>>

NextTail == TailOnce \/ TailTwice

SpecTail == InitTail /\ [][NextTail]_vars

(***************************************************************************)
(* timingSafeEqual on its own: two presented tokens against one secret     *)
(***************************************************************************)
\* tokens a client presents: the secret, one that differs in the last
\* character, shorter and longer ones
Presented ==
    {Some(DeployReceiverToken), Some(<<"t", "o", "x">>), Some(<<"t">>),
     Some(<<"t", "o">>), Some(<<"t", "o", "p", "s">>)}

InitToken ==
    /\ allowlist = None
    /\ deployLocks = {}
    /\ run = EmptyBag
    /\ resp = NoResp
    /\ seen = NotSeen
    /\ childEnv = None
    /\ call \in [fn : {"timingSafeEqual"},
                  secret : {Some(DeployReceiverToken), Some(<<"t", "o">>)},
                  first : Presented, second : Presented, work : {<<>>},
                  equal : {<<>>}]

\* timingSafeEqual(token, secret) for the next of the two tokens
TokenCompare ==
    /\ call.fn = "timingSafeEqual"
    /\ Len(call.work) < 2
    /\ LET token == IF call.work = <<>> THEN call.first ELSE call.second IN
       call' = [call EXCEPT
                  !.work = Append(@, timingSafeEqualWork(token, call.secret)),
                  !.equal = Append(@, timingSafeEqual(token, call.secret))]
    /\ UNCHANGED <<allowlist, deployLocks, run, resp, seen, childEnv>>

SpecToken == InitToken /\ [][TokenCompare]_vars

(***************************************************************************)
(* The lock table on its own: acquireLock and releaseLock called in any    *)
(* order on any table                                                      *)
(***************************************************************************)
LockKeys == {Sporty, Blitzed, <<"a">>, <<"b">>}

InitLock ==
    /\ allowlist = None
    /\ deployLocks \in SUBSET LockKeys
    /\ run = EmptyBag
    /\ resp = NoResp
    /\ seen = NotSeen
    /\ childEnv = None
    /\ call = [fn |-> "lock", op |-> "none", key |-> <<>>, before |-> {},
               returned |-> None]

\* acquireLock(key)
LockAcquire ==
    /\ call.fn = "lock"
    /\ \E key \in LockKeys :
         /\ deployLocks' = acquireLockTable(deployLocks, key)
         /\ call' = [call EXCEPT !.op = "acquire", !.key = key,
                                 !.before = deployLocks,
                                 !.returned = Some(acquireLock(deployLocks, key))]
    /\ UNCHANGED <<allowlist, run, resp, seen, childEnv>>

\* releaseLock(key)
LockRelease ==
    /\ call.fn = "lock"
    /\ \E key \in LockKeys :
         /\ deployLocks' = releaseLock(deployLocks, key)
         /\ call' = [call EXCEPT !.op = "release", !.key = key,
                                 !.before = deployLocks, !.returned = None]
    /\ UNCHANGED <<allowlist, run, resp, seen, childEnv>>

NextLock == LockAcquire \/ LockRelease

SpecLock == InitLock /\ [][NextLock]_vars

(***************************************************************************)
(* Properties                                                              *)
(***************************************************************************)
\* the number of runs that satisfy P
Count(P(_)) ==
    LET some == {r \in Runs : P(r)} IN
    IF some = {} THEN 0 ELSE BagCardinality([r \in some |-> run[r]])

HoldsLock(repo, r) == Awaiting(r) /\ r.repo = repo
Holders(repo) == LET P(r) == HoldsLock(repo, r) IN Count(P)
Held(repo) == \E r \in Runs : HoldsLock(repo, r)

AliveChild(repo, r) == r.child = "alive" /\ r.repo = repo
AliveChildren(repo) == LET P(r) == AliveChild(repo, r) IN Count(P)

\* responses of a handler that had acquired the lock
RunKinds == {"success", "failure", "error", "escaped"}

\* a request for repo passed the lock step in this step: a run more holds
\* the lock
Acquired(repo) == Holders(repo)' > Holders(repo)

\* a request for repo got the conflict outcome in this step
Refused(repo) == resp'.kind = "busy" /\ resp'.repo = repo

\* C1: at every instant at most one request per repository holds that
\* repository's lock (is between its successful acquireLock and its
\* releaseLock)
C1_OneHolderPerRepo == \A repo \in Repos : Holders(repo) <= 1

\* two deploys in flight at once, one per repository, each holding its lock
C1_Witness ==
    /\ Holders(Sporty) = 1
    /\ Holders(Blitzed) = 1
    /\ deployLocks = {Sporty, Blitzed}

\* C2: of the acquireLock attempts for one repository made before any
\* release, exactly one returns true: an attempt returns true only on a key
\* that is free, and it returns false only while the request whose attempt
\* returned true has not released.  So after releaseLock the next attempt
\* returns true.
C2_ExclusiveAcquire ==
    [][\A repo \in Repos :
         /\ Acquired(repo) => repo \notin deployLocks /\ repo \in deployLocks'
         /\ Refused(repo) => Held(repo) /\ repo \in deployLocks]_vars

\* a repository whose lock was released (what its last deploy left behind
\* still exists) and acquired again
C2_Witness ==
    \E r \in Runs, z \in Runs :
      /\ Awaiting(r)
      /\ z.pc = "done"
      /\ z.repo = r.repo

\* C3: a request that reaches the lock step while another deploy of the same
\* repository is in flight never becomes a run; it ends at once with the
\* conflict outcome (409), which leaves the lock table and every run (so every
\* child process) as they were
C3_BusyIsImmediate ==
    [][\A repo \in Repos :
         /\ Held(repo) => ~Acquired(repo)
         /\ Refused(repo) =>
              /\ resp'.status = 409
              /\ ~resp'.ok
              /\ run' = run
              /\ deployLocks' = deployLocks]_vars

\* a conflict outcome, sent while the deploy in flight goes on
C3_Witness ==
    /\ resp.kind = "busy"
    /\ resp.status = 409
    /\ Holders(resp.repo) = 1
    /\ AliveChildren(resp.repo) = 1

C6_OneChildPerRepo == \A repo \in Repos : AliveChildren(repo) <= 1

Sent(signals, sig) ==
    \E i \in 1..Len(signals) : signals[i].sig = sig /\ signals[i].res = "sent"

\* the signals of a run follow the ladder: SIGTERM at the timeout, then
\* SIGKILL one grace interval later
Ladder(signals) ==
    /\ Len(signals) <= 2
    /\ \A i \in 1..Len(signals) :
         \/ /\ signals[i].sig = "SIGTERM"
            /\ signals[i].at = DeployTimeoutMs
            /\ i = 1
         \/ /\ signals[i].sig = "SIGKILL"
            /\ signals[i].at = DeployTimeoutMs + GraceMs

\* what C7 says of a state
LadderInv ==
    /\ \A r \in Runs :
         /\ Ladder(r.signals)
         \* a child alive when the outer timer fired was sent SIGTERM
         /\ r.timer = "fired" /\ r.child = "alive" =>
              r.signals # <<>> /\ r.signals[1].sig = "SIGTERM"
         \* no run waits for a live child once the inner timer fired
         /\ r.grace = "fired" /\ Awaiting(r) => r.child # "alive"
    /\ resp.kind \in RunKinds =>
         /\ Ladder(resp.signals)
         /\ Sent(resp.signals, "SIGKILL") => ~resp.ok /\ resp.exitCode = None

\* a run whose child was killed by the inner timer and whose handler waits
Killed(repo) ==
    \E r \in Runs : HoldsLock(repo, r) /\ Sent(r.signals, "SIGKILL")

C8_SettlesWithoutClose == \A repo \in Repos : Killed(repo) ~> ~Held(repo)

\* C9: a run whose timeout expired (a termination signal was sent) is
\* reported as a failure, whatever exit code the child delivers afterwards
C9_TimedOutIsFailure ==
    resp.kind \in RunKinds /\ Sent(resp.signals, "SIGTERM") => ~resp.ok

\* text is the last n characters of s, or s itself if it has at most n
IsTailOf(text, s, n) ==
    /\ Len(text) = IF Len(s) > n THEN n ELSE Len(s)
    /\ \A i \in 1..Len(text) : text[i] = s[Len(s) - Len(text) + i]

\* C10: a resolved run is reported as a success, with the tail of stdout, if
\* and only if its exit code is 0; otherwise as a failure with the tail of
\* stderr, or the tail of stdout when stderr is empty
C10_OutcomeByExitCode ==
    resp.kind \in {"success", "failure"} =>
        /\ resp.ok <=> resp.exitCode = Some(0)
        /\ resp.ok =>
             /\ resp.kind = "success"
             /\ resp.field = "output"
             /\ IsTailOf(resp.text, resp.stdout, MaxOutputChars)
        /\ ~resp.ok =>
             /\ resp.kind = "failure"
             /\ resp.field = "error"
             /\ IsTailOf(resp.text,
                         IF resp.stderr # <<>> THEN resp.stderr ELSE resp.stdout,
                         MaxOutputChars)

\* a failed run that wrote only to stdout, more than the budget: the error is
\* the tail of stdout
C10_Witness ==
    /\ resp.kind = "failure"
    /\ resp.stderr = <<>>
    /\ Len(resp.stdout) > MaxOutputChars
    /\ Len(resp.text) = MaxOutputChars
    /\ resp.text[Len(resp.text)] = resp.stdout[Len(resp.stdout)]
    /\ resp.text[1] # resp.stdout[1]

(***************************************************************************)
(* The checks before the lock step                                         *)
(***************************************************************************)
\* the fields of the body the last request carried
Body == seen.body[1]

BodyRead == seen.req /\ seen.body # None

\* a field is there: neither undefined nor the empty string
Present(opt) == opt # None /\ opt[1] # <<>>

TokenOk == seen.token = Some(DeployReceiverToken)

FieldsPresent ==
    BodyRead /\ Present(Body.repo) /\ Present(Body.image) /\ Present(Body.tag)

RepoOk == REPO_SLUG_RE(Body.repo[1])
ImageOk == IMAGE_RE(Body.image[1])
TagOk == TAG_RE(Body.tag[1])
EnvOk == ~Present(Body.environment) \/ Body.environment[1] \in ENVS

\* the repository passes the policy
Member == allowlist = None \/ Body.repo[1] \in allowlist[1]

\* the last request passed every check before the lock step
Passed ==
    /\ seen.req
    /\ TokenOk
    /\ FieldsPresent
    /\ RepoOk /\ ImageOk /\ TagOk /\ EnvOk
    /\ Member
    /\ seen.fs = "ok"

\* the outcomes that turn a request away
RejectKinds ==
    {"unauthorized", "missing", "badrepo", "forbidden", "badimage", "badtag",
     "badenv", "nodir", "noscript", "noexec", "busy"}

\* this step spawned a child / added a key to the lock table
SpawnedChild == BagCardinality(run') > BagCardinality(run)
LockAdded == ~(deployLocks' \subseteq deployLocks)

\* C11: a child is spawned and a key is added to the lock table only by a
\* request that passed authentication, the required-field check, the four
\* syntax validators, the allowlist and the directory / script / executable
\* checks; a rejected request leaves the lock table and the runs as they were
C11_NoSideEffectBeforeChecks ==
    [][/\ SpawnedChild \/ LockAdded => Passed'
       /\ resp'.kind \in RejectKinds =>
            /\ deployLocks' = deployLocks
            /\ run' = run]_vars

\* a request for an allowlisted repository passed every check: its child is
\* spawned and its lock is the only one held
C11_Witness ==
    /\ Passed
    /\ allowlist = Some({Sporty})
    /\ resp = NoResp
    /\ deployLocks = {Body.repo[1]}
    /\ BagCardinality(run) = 1

\* C12: a request whose X-Deploy-Token is missing or is not the configured
\* token is answered 401 before the body is read, the filesystem is looked at,
\* the lock table is touched or a child is spawned; the answer is the same
\* whether the token is missing or wrong, and no other request gets it
C12_UnauthorizedFirst ==
    [][seen'.req =>
         /\ ~TokenOk' =>
              /\ resp' = Reject("unauthorized", 401)
              /\ resp'.status = 401
              /\ seen'.body = None
              /\ seen'.fs = "unread"
              /\ deployLocks' = deployLocks
              /\ run' = run
         /\ TokenOk' => resp'.kind # "unauthorized"]_vars

\* a token of the right length that differs in its last character is turned
\* away while a deploy is in flight
C12_Witness ==
    /\ resp.kind = "unauthorized"
    /\ seen.token = Some(<<"t", "o", "x">>)
    /\ deployLocks # {}

\* C13: with an allowlist configured (an empty one included), a request for a
\* well-formed repository that is not a member is answered 403 before the
\* filesystem is looked at, the lock table touched or a child spawned; with
\* no allowlist configured no request is answered 403
C13_AllowlistCheck ==
    [][/\ seen'.req /\ TokenOk' /\ FieldsPresent' /\ RepoOk' /\ ~Member' =>
            /\ resp'.kind = "forbidden"
            /\ resp'.status = 403
            /\ seen'.fs = "unread"
            /\ deployLocks' = deployLocks
            /\ run' = run
       /\ allowlist = None => resp'.kind # "forbidden"]_vars

\* the empty allowlist turns a well-formed request away
C13_Witness ==
    /\ allowlist = Some({})
    /\ resp.kind = "forbidden"
    /\ FieldsPresent /\ RepoOk /\ ImageOk /\ TagOk /\ EnvOk

\* C14 as stated: the precedence is existence, then syntax (repo, image, tag,
\* environment), then policy, so that a request is answered 403 only if it
\* passes every syntax check
C14_SyntaxBeforePolicy ==
    resp.kind = "forbidden" =>
        FieldsPresent /\ RepoOk /\ ImageOk /\ TagOk /\ EnvOk

\* the first check an authenticated request fails, in the order existence,
\* repo syntax, policy, image syntax, tag syntax, environment
FirstFailure ==
    IF ~FieldsPresent THEN "missing"
    ELSE IF ~RepoOk THEN "badrepo"
    ELSE IF ~Member THEN "forbidden"
    ELSE IF ~ImageOk THEN "badimage"
    ELSE IF ~TagOk THEN "badtag"
    ELSE IF ~EnvOk THEN "badenv"
    ELSE "pass"

\* C14, amended: the outcome of a request that violates several checks is that
\* of the first check it fails in the fixed order existence, repo syntax,
\* policy, image syntax, tag syntax, environment: 403 is sent only to requests
\* with all fields and a well-formed repo, and the body and the allowlist
\* determine the error
C14_PrecedenceAsCoded ==
    seen.req /\ TokenOk =>
        /\ BodyRead
        /\ IF FirstFailure # "pass"
           THEN /\ resp.kind = FirstFailure
                /\ seen.fs = "unread"
           ELSE resp.kind \notin {"missing", "badrepo", "forbidden", "badimage",
                                  "badtag", "badenv"}
        /\ resp.kind = "forbidden" => FieldsPresent /\ RepoOk

\* a request that fails the policy and two syntax checks is answered 403
C14_Witness ==
    /\ resp.kind = "forbidden"
    /\ FieldsPresent /\ RepoOk
    /\ ~ImageOk /\ ~TagOk

\* the cause an outcome stands for
Cause(kind) ==
    CASE kind = "unauthorized" -> "unauthorized"
      [] kind \in {"missing", "badrepo", "badimage", "badtag", "badenv"} -> "bad-request"
      [] kind = "forbidden" -> "forbidden"
      [] kind \in {"nodir", "noscript"} -> "not-found"
      [] kind = "noexec" -> "precondition-failed"
      [] kind = "busy" -> "conflict"
      [] kind = "error" -> "internal-error"
      [] kind = "failure" -> "execution-failure"
      [] kind = "success" -> "success"

\* a structured response was sent
Responded(r) == r.kind \notin {"none", "uncaught", "escaped"}

\* two causes that must not share an outcome kind: any two different ones,
\* but a run that failed and an internal error
MustDiffer(a, b) ==
    /\ a # b
    /\ {a, b} # {"internal-error", "execution-failure"}

\* C15 as stated: responses of different causes have different status codes,
\* whichever two responses follow each other; so a script that is not
\* executable is told apart from a spawn failure and from a non-zero exit
C15_DistinctOutcomeKinds ==
    [][Responded(resp) /\ Responded(resp') /\
       MustDiffer(Cause(resp.kind), Cause(resp'.kind))
         => resp.status # resp'.status]_vars

\* the documented status of each cause (README, Troubleshooting)
DocumentedStatus(cause) ==
    CASE cause = "unauthorized" -> 401
      [] cause = "bad-request" -> 400
      [] cause = "forbidden" -> 403
      [] cause = "not-found" -> 404
      [] cause = "precondition-failed" -> 500
      [] cause = "conflict" -> 409
      [] cause = "internal-error" -> 500
      [] cause = "execution-failure" -> 500
      [] cause = "success" -> 200

\* C15, amended: unauthorized (401), bad-request (400), forbidden (403),
\* not-found (404) and conflict (409) have status codes of their own; a script
\* that is not executable, a spawn failure or fault, and a non-zero exit share
\* 500, and the first differs from the other two by carrying no repo / image /
\* tag
C15_StatusPerCause ==
    Responded(resp) =>
        /\ resp.status = DocumentedStatus(Cause(resp.kind))
        /\ resp.status = 500 =>
             (resp.ctx <=> Cause(resp.kind) # "precondition-failed")

\* a script without execute permission is answered 500, with no context
C15_Witness ==
    /\ resp.kind = "noexec"
    /\ resp.status = 500
    /\ ~resp.ctx
    /\ seen.fs = "noexec"

\* C16: the handler of a run whose spawn failed answers with the internal
\* error built from the spawn error (or fails to answer at all), with no exit
\* code; the 'close' that follows the 'error' finds the promise settled and
\* sends nothing, and no response carries the errno a failed spawn passes to
\* 'close' as if it were an exit code
C16_SpawnFailureIsInternalError ==
    [][\A r \in Runs :
         /\ r.child = "failed" /\ resp'.kind \in RunKinds =>
              /\ resp'.kind \in {"error", "escaped"}
              /\ resp'.kind = "error" =>
                   /\ resp'.status = 500
                   /\ resp'.text = SpawnErrorMessage
              /\ resp'.exitCode = None
         /\ r.pc = "done" => resp'.kind \notin RunKinds
         /\ resp'.kind \in RunKinds => resp'.exitCode \in ExitCodes]_vars

\* the spawn error was answered and the child's 'close' is still to come
C16_Witness ==
    /\ resp.kind = "error"
    /\ resp.text = SpawnErrorMessage
    /\ resp.exitCode = None
    /\ \E r \in Runs : r.pc = "done" /\ r.child = "dead" /\ r.signals = <<>>

\* C17: every request ends with a structured outcome, whichever step faults:
\* no fault leaves the handler, be it raised while the paths are resolved and
\* the directory and script checked or during the run
C17_NoFaultEscapes == resp.kind \notin {"uncaught", "escaped"}

\* C18: for a budget n >= 1, tail(s, n) is the last n characters of s if s is
\* longer than n and s itself otherwise; so it is never longer than n, and
\* tail(tail(s, n), n) = tail(s, n)
C18_TailCutsToBudget ==
    call.fn = "tail" =>
        /\ call.out # None =>
             /\ IsTailOf(call.out[1], call.str, call.maxChars)
             /\ Len(call.str) <= call.maxChars => call.out[1] = call.str
             /\ Len(call.out[1]) <= call.maxChars
        /\ call.again # None => call.again = call.out

\* a string of one character more than the budget was cut, and cutting the
\* result again changed nothing
C18_Witness ==
    /\ call.fn = "tail"
    /\ call.str = <<"a", "b", "b", "a">>
    /\ call.maxChars = 3
    /\ call.out = Some(<<"b", "b", "a">>)
    /\ call.again = call.out

\* C19: the output or error text of every response of a handler that ran the
\* deploy (success, failure, timeout, spawn failure or fault) is at most
\* maxOutputChars long
C19_TextWithinBudget ==
    resp.kind \in {"success", "failure", "error"} =>
        Len(resp.text) <= MaxOutputChars

\* C20: every outcome sent once repo, image and tag are known from the body
\* (validation rejection, 403, 404, not executable, busy, failure, success)
\* carries the repo, image and tag fields
C20_ContextWhenKnown ==
    /\ resp.kind \in {"success", "failure", "error"} => resp.ctx
    /\ resp.kind \in RejectKinds /\ FieldsPresent => resp.ctx

\* the keys of the environment contract
EnvKeys ==
    {"PATH", "HOME", "DEPLOY_REPO", "DEPLOY_IMAGE", "DEPLOY_TAG", "DEPLOY_ENV",
     "VAULTWARDEN_MASTER_PASSWORD", "GHCR_PAT"}

\* C21: the environment of every spawned child has exactly the keys PATH,
\* HOME, DEPLOY_REPO, DEPLOY_IMAGE, DEPLOY_TAG, DEPLOY_ENV,
\* VAULTWARDEN_MASTER_PASSWORD and GHCR_PAT; its DEPLOY_* values are the
\* validated fields of the request that spawned it, DEPLOY_ENV one of prod,
\* dev and the empty string; the request's token is none of its values; and
\* every step that spawns a child builds one
C21_ChildEnvironment ==
    [][/\ SpawnedChild <=> childEnv' # None
       /\ childEnv' # None =>
            LET env == childEnv'[1]
                body == seen'.body[1]
            IN /\ Passed'
               /\ DOMAIN env = EnvKeys
               /\ env.DEPLOY_REPO = body.repo[1]
               /\ REPO_SLUG_RE(env.DEPLOY_REPO)
               /\ env.DEPLOY_IMAGE = body.image[1]
               /\ IMAGE_RE(env.DEPLOY_IMAGE)
               /\ env.DEPLOY_TAG = body.tag[1]
               /\ TAG_RE(env.DEPLOY_TAG)
               /\ env.DEPLOY_ENV \in {<<"p", "r", "o", "d">>, <<"d", "e", "v">>, <<>>}
               /\ env.DEPLOY_ENV = IF body.environment = None THEN <<>>
                                   ELSE body.environment[1]
               /\ \A k \in DOMAIN env : env[k] # seen'.token[1]]_vars

\* a child was spawned for a request that named the environment prod
C21_Witness ==
    /\ childEnv # None
    /\ childEnv[1].DEPLOY_ENV = <<"p", "r", "o", "d">>
    /\ childEnv[1].DEPLOY_REPO = Sporty
    /\ childEnv[1].HOME = <<"/", "h", "/", "s", "p", "o", "r", "t", "y">>
    /\ seen.token = Some(DeployReceiverToken)

\* C22: deploys of different repositories do not get in each other's way: a
\* request that passed the checks is answered busy exactly if a deploy of its
\* own repository is in flight, whatever other repositories are locked;
\* otherwise it takes its lock, leaves the other locks alone and its child is
\* spawned next to those already alive
C22_DistinctReposIndependent ==
    [][\A b \in Repos :
         seen'.req /\ Passed' /\ seen'.body[1].repo[1] = b =>
         /\ resp'.kind = "busy" <=> Held(b)
         /\ ~Held(b) =>
              /\ Acquired(b)
              /\ deployLocks' = deployLocks \cup {b}
              /\ \A a \in Repos \ {b} :
                   AliveChildren(a)' = AliveChildren(a)]_vars

\* the deploy of one repository was accepted while the child of the other is
\* alive: both children are alive
C22_Witness ==
    /\ seen.req
    /\ resp = NoResp
    /\ AliveChildren(Sporty) = 1
    /\ AliveChildren(Blitzed) = 1
    /\ Holders(Sporty) = 1
    /\ Holders(Blitzed) = 1

\* C23: the comparison does the same work for any two presented tokens,
\* whatever their content and length and whatever the length of the secret:
\* a wrong token of any length, one that differs in its last character and
\* the right one cannot be told apart by the time it takes
C23_TimingIndependent ==
    call.fn = "timingSafeEqual" /\ Len(call.work) = 2 =>
        call.work[1] = call.work[2]

\* a signal was passed to kill, delivered or not
Signalled(signals, sig) == \E i \in 1..Len(signals) : signals[i].sig = sig

\* C24: a child that closes before the timeout has its timeout timer cleared
\* and is never signalled: no closed child is left with the outer timer
\* armed, a run whose outer timer has not fired has sent no signal and armed
\* no inner timer, and the response to a run that closed with its timer
\* still armed records no signal
C24_CloseCancelsTimeout ==
    [][\A r \in Runs :
         /\ r.child = "closed" => r.timer # "armed"
         /\ r.timer = "armed" => r.signals = <<>> /\ r.grace = "none"
         /\ (/\ Awaiting(r)
             /\ r.timer = "armed"
             /\ resp'.kind \in {"success", "failure"}
             /\ resp'.repo = r.repo)
              => /\ resp'.signals = <<>>
                 /\ \A z \in Runs' :
                      z.repo = r.repo => z.timer # "armed" \/ z.child # "closed"]_vars

\* a deploy that ended before the timeout was answered, and nothing of it is
\* left: no timer, no signal
C24_Witness ==
    /\ resp.kind = "success"
    /\ resp.signals = <<>>
    /\ run = EmptyBag
    /\ deployLocks = {}

\* C25: SIGKILL is sent only to a child that is alive when the inner timer
\* fires: a step never adds SIGKILL to the signals of a run whose child has
\* ended or closed, so a child that closes within the grace interval after
\* SIGTERM is not sent SIGKILL
C25_KillOnlyIfAlive ==
    [][\A r \in Runs :
         r.child # "alive" /\ ~Signalled(r.signals, "SIGKILL") =>
           \A z \in Runs' : ~Signalled(z.signals, "SIGKILL")]_vars

\* a child that closed within the grace interval: its run was answered with
\* SIGTERM as the only signal, and the inner timer is still armed
C25_Witness ==
    /\ resp.kind \in {"success", "failure"}
    /\ Len(resp.signals) = 1
    /\ resp.signals[1].sig = "SIGTERM"
    /\ \E r \in Runs :
         /\ r.child = "closed"
         /\ r.grace = "armed"
         /\ r.signals = resp.signals

\* C26: the lock-table operations touch only their own key and change
\* nothing when they fail: releaseLock(r) on a table without r leaves it as
\* it was (so a second release changes nothing), acquireLock(r) that returns
\* false leaves it as it was, one that returns true adds r only, and neither
\* changes the entry of another key
C26_LockOpsFrame ==
    call.fn = "lock" /\ call.op # "none" =>
        /\ \A other \in LockKeys \ {call.key} :
             other \in deployLocks <=> other \in call.before
        /\ call.op = "release" =>
             /\ call.key \notin deployLocks
             /\ call.key \notin call.before => deployLocks = call.before
        /\ call.op = "acquire" =>
             /\ call.returned = Some(call.key \notin call.before)
             /\ call.returned = Some(FALSE) => deployLocks = call.before
             /\ call.key \in deployLocks

\* a release of a key the table does not hold, with two other keys held
C26_Witness ==
    /\ call.fn = "lock"
    /\ call.op = "release"
    /\ call.key = Sporty
    /\ call.before = {Blitzed, <<"a">>}
    /\ deployLocks = call.before

\* C27: only the request that holds the lock of a repository releases it: a
\* key leaves the lock table only in the step in which the handler that
\* awaited the deploy of that repository answers, and a request that ends as
\* unauthorized, rejected or busy calls releaseLock not at all
C27_OnlyHolderReleases ==
    [][/\ \A repo \in Repos :
            repo \in deployLocks /\ repo \notin deployLocks' =>
              /\ Held(repo)
              /\ ~Held(repo)'
              /\ resp'.kind \in RunKinds
              /\ resp'.repo = repo
       /\ resp'.kind \in RejectKinds =>
            /\ resp'.releases = 0
            /\ \A repo \in Repos : Held(repo) => repo \in deployLocks']_vars

\* a deploy of one repository ended and released its lock while the other
\* repository's deploy, still in flight, kept its own
C27_Witness ==
    /\ resp.kind \in RunKinds
    /\ resp.releases = 1
    /\ resp.repo = Sporty
    /\ deployLocks = {Blitzed}
    /\ Held(Blitzed)

\* C28: the timers of a run signal the child of that run only: whatever a
\* child was sent, its own run's timers sent it (SIGTERM after its own outer
\* timer fired, SIGKILL after its own inner timer fired, at its own times),
\* so the child of a later deploy of the same repository is not signalled by
\* a timer an earlier run left behind
C28_TimersSignalOwnChild ==
    \A r \in Runs :
      /\ r.signals # <<>> => r.timer = "fired"
      /\ Signalled(r.signals, "SIGKILL") => r.grace = "fired"
      /\ r.timer = "armed" => r.elapsed = 0
      /\ \A i \in 1..Len(r.signals) : r.signals[i].at <= r.elapsed

\* the inner timer of an earlier run has fired and killed that run's child
\* while a later deploy of the same repository is in flight, its child alive
\* and not signalled
C28_Witness ==
    \E old \in Runs, new \in Runs :
      /\ old.repo = new.repo
      /\ old.pc = "done"
      /\ old.grace = "fired"
      /\ Sent(old.signals, "SIGKILL")
      /\ Awaiting(new)
      /\ new.child = "alive"
      /\ new.timer = "armed"
      /\ new.signals = <<>>

====
